---- MODULE Spec2Model ----
(***************************************************************************)
(* Model of the liveblocks client.                                         *)
(*                                                                         *)
(*  - createClient (client.ts): the room pool, enter / leave / getRoom,    *)
(*    the validation of the options, and the wiring of the "online" and    *)
(*    "visibilitychange" events into the pooled rooms.                     *)
(*  - AbstractCrdt / LiveRegister: the node kernel (_attach,               *)
(*    _setParentLink, _detach) over a document's id index.                 *)
(***************************************************************************)
EXTENDS Integers, FiniteSets, Sequences, TLC

----------------------------------------------------------------------------
(* Bounds of the model *)

\* number of room instances one client may create
MaxRooms == 2
\* number of environment events (online, visibilitychange) that are fired
MaxEvents == 1
\* number of op ids the document generates
MaxOps == 1

----------------------------------------------------------------------------
(* Values *)

RoomIds == {"r1", "r2"}

\* `null`, as returned by getRoom; room instances are numbered from 1
NoRoom == 0

\* program constants of getThrottleDelayFromOptions
DefaultThrottle == 100
MinThrottle == 80
MaxThrottle == 1000

\* A JavaScript value as typeof and the relational operators see it:
\* its typeof, whether it is NaN, and its numeric value.
Undefined == [type |-> "undefined", nan |-> FALSE, val |-> 0]
Num(n) == [type |-> "number", nan |-> FALSE, val |-> n]
NaN == [type |-> "number", nan |-> TRUE, val |-> 0]
Str == [type |-> "string", nan |-> FALSE, val |-> 0]
Fun == [type |-> "function", nan |-> FALSE, val |-> 0]

\* JavaScript a < n and a > n for a number a: false when a is NaN
JsLess(a, n) == ~a.nan /\ a.val < n
JsGreater(a, n) == ~a.nan /\ a.val > n

\* the values of options.throttle that are tried
ThrottleValues ==
  {Undefined, NaN, Str, Num(MinThrottle - 1), Num(MinThrottle),
   Num(MaxThrottle), Num(MaxThrottle + 1)}

\* the client options that are tried
OptionValues ==
  [throttle : ThrottleValues,
   publicApiKey : {Undefined, Str},
   authEndpoint : {Undefined, Str, Fun}]

NoOptions == [throttle |-> Undefined, publicApiKey |-> Undefined,
              authEndpoint |-> Undefined]

----------------------------------------------------------------------------
(* State of one client *)

VARIABLES
  onlineListener,      \* the "online" listener is registered on window
  visibilityListener,  \* the "visibilitychange" listener is registered on document
  client,         \* "none" before createClient, then "created" or "threw"
  clientOptions,  \* the options createClient was called with
  throttleDelay,  \* result of getThrottleDelayFromOptions
  rooms,          \* the pool: room id -> room instance, or NoRoom
  internalRooms,  \* every room instance created so far, by instance number
  entered,        \* history: what the last enter(roomId) returned, NoRoom once left
  left,           \* history: the instances leave() has removed from the pool
  events,         \* number of environment events fired so far
  last            \* the last call: operation, argument, result, exception

clientVars == <<onlineListener, visibilityListener, client, clientOptions, throttleDelay,
                rooms, internalRooms, entered, left, events, last>>

\* State of one document and its nodes (AbstractCrdt)
VARIABLES
  crdtData,       \* _data of each register; NoData before its construction
  crdtId,         \* __id of each node, or NoId
  crdtDoc,        \* whether __doc of each node is the document
  crdtParent,     \* __parent of each node, or NoParent
  crdtParentKey,  \* __parentKey of each node, or NoKey
  items,          \* the document's index: id -> node, or NoNode
  opClock,        \* the document's counter of generated op ids
  crdtLast        \* the last call on a node: operation, node, exception

crdtVars == <<crdtData, crdtId, crdtDoc, crdtParent, crdtParentKey, items, opClock,
              crdtLast>>

vars == <<clientVars, crdtVars>>

Call(op, arg, ret, threw) == [op |-> op, arg |-> arg, ret |-> ret, threw |-> threw]

\* the room instances that are in the pool
Pooled == {rooms[r] : r \in RoomIds} \ {NoRoom}

----------------------------------------------------------------------------
(* Pure functions of client.ts *)

\* getThrottleDelayFromOptions: [threw, value]
getThrottleDelayFromOptions(options) ==
  IF options.throttle.type = "undefined"
  THEN [threw |-> FALSE, value |-> Num(DefaultThrottle)]
  ELSE IF \/ options.throttle.type # "number"
          \/ JsLess(options.throttle, MinThrottle)
          \/ JsGreater(options.throttle, MaxThrottle)
       THEN [threw |-> TRUE, value |-> Undefined]
       ELSE [threw |-> FALSE, value |-> options.throttle]

\* prepareAuthentication: [threw, type]
prepareAuthentication(options) ==
  IF options.publicApiKey.type = "string"
  THEN [threw |-> FALSE, type |-> "public"]
  ELSE IF options.authEndpoint.type = "string"
       THEN [threw |-> FALSE, type |-> "private"]
       ELSE IF options.authEndpoint.type = "function"
            THEN [threw |-> FALSE, type |-> "custom"]
            ELSE [threw |-> TRUE, type |-> "none"]

\* createRoom, as the client calls it: the context it hands to the room, and
\* the calls the client has made on the instance since
createRoom(roomId, delay, authentication) ==
  [room |-> roomId, throttleDelay |-> delay, authentication |-> authentication,
   connect |-> 0, disconnect |-> 0, online |-> 0, visibility |-> 0]

----------------------------------------------------------------------------
(* Operations of the client *)

ClientInit ==
  /\ onlineListener = FALSE
  /\ visibilityListener = FALSE
  /\ client = "none"
  /\ clientOptions = NoOptions
  /\ throttleDelay = Undefined
  /\ rooms = [r \in RoomIds |-> NoRoom]
  /\ internalRooms = <<>>
  /\ entered = [r \in RoomIds |-> NoRoom]
  /\ left = {}
  /\ events = 0
  /\ last = Call("none", "", NoRoom, FALSE)

\* createClient(options): validates the throttle, creates the empty pool and
\* registers the environment listeners
\* (window, document: whether typeof window, typeof document is not "undefined")
createClient(options, window, document) ==
  /\ client = "none"
  /\ clientOptions' = options
  /\ LET delay == getThrottleDelayFromOptions(options)
     IN /\ throttleDelay' = delay.value
        /\ client' = IF delay.threw THEN "threw" ELSE "created"
        /\ onlineListener' = (~delay.threw /\ window)
        /\ visibilityListener' = (~delay.threw /\ document)
        /\ last' = Call("createClient", "", NoRoom, delay.threw)
  /\ UNCHANGED <<rooms, internalRooms, entered, left, events>>
  /\ UNCHANGED crdtVars

\* getRoom, looking the id up among every room created, left ones included
getRoom_stale(roomId) ==
  /\ client = "created"
  /\ LET created == {i \in DOMAIN internalRooms : internalRooms[i].room = roomId}
     IN last' = Call("getRoom", roomId,
                     IF created = {} THEN NoRoom
                     ELSE CHOOSE i \in created : \A j \in created : j <= i,
                     FALSE)
  /\ UNCHANGED <<onlineListener, visibilityListener, client, clientOptions,
                 throttleDelay, rooms, internalRooms, entered, left, events>>
  /\ UNCHANGED crdtVars

\* getRoom(roomId)
getRoom(roomId) ==
  /\ client = "created"
  /\ last' = Call("getRoom", roomId, rooms[roomId], FALSE)
  /\ UNCHANGED <<onlineListener, visibilityListener, client, clientOptions, throttleDelay,
                 rooms, internalRooms, entered, left, events>>
  /\ UNCHANGED crdtVars

\* enter, without the lookup of an existing room
enter_alwaysCreates(roomId, withoutConnecting) ==
  /\ client = "created"
  /\ LET authentication == prepareAuthentication(clientOptions)
     IN IF authentication.threw
        THEN /\ last' = Call("enter", roomId, NoRoom, TRUE)
             /\ UNCHANGED <<rooms, internalRooms, entered>>
        ELSE /\ Len(internalRooms) < MaxRooms
             /\ LET newInternalRoom ==
                      createRoom(roomId, throttleDelay, authentication.type)
                    instance == Len(internalRooms) + 1
                IN /\ rooms' = [rooms EXCEPT ![roomId] = instance]
                   /\ internalRooms' =
                        Append(internalRooms,
                               IF withoutConnecting
                               THEN newInternalRoom
                               ELSE [newInternalRoom EXCEPT !.connect = @ + 1])
                   /\ entered' = [entered EXCEPT ![roomId] = instance]
                   /\ last' = Call("enter", roomId, instance, FALSE)
  /\ UNCHANGED <<onlineListener, visibilityListener, client, clientOptions,
                 throttleDelay, left, events>>
  /\ UNCHANGED crdtVars

\* enter, with the room registered before its authentication is prepared
enter_registersFirst(roomId, withoutConnecting) ==
  /\ client = "created"
  /\ IF rooms[roomId] # NoRoom
     THEN /\ last' = Call("enter", roomId, rooms[roomId], FALSE)
          /\ entered' = [entered EXCEPT ![roomId] = rooms[roomId]]
          /\ UNCHANGED <<rooms, internalRooms>>
     ELSE LET authentication == prepareAuthentication(clientOptions)
              instance == Len(internalRooms) + 1
          IN /\ Len(internalRooms) < MaxRooms
             /\ rooms' = [rooms EXCEPT ![roomId] = instance]
             /\ IF authentication.threw
                THEN /\ internalRooms' =
                          Append(internalRooms,
                                 createRoom(roomId, throttleDelay, "undefined"))
                     /\ last' = Call("enter", roomId, NoRoom, TRUE)
                     /\ UNCHANGED entered
                ELSE LET newInternalRoom ==
                           createRoom(roomId, throttleDelay, authentication.type)
                     IN /\ internalRooms' =
                             Append(internalRooms,
                                    IF withoutConnecting
                                    THEN newInternalRoom
                                    ELSE [newInternalRoom EXCEPT !.connect = @ + 1])
                        /\ entered' = [entered EXCEPT ![roomId] = instance]
                        /\ last' = Call("enter", roomId, instance, FALSE)
  /\ UNCHANGED <<onlineListener, visibilityListener, client, clientOptions, throttleDelay, left,
                 events>>
  /\ UNCHANGED crdtVars

\* enter(roomId, { DO_NOT_USE_withoutConnecting })
enter(roomId, withoutConnecting) ==
  /\ client = "created"
  /\ IF rooms[roomId] # NoRoom
     THEN /\ last' = Call("enter", roomId, rooms[roomId], FALSE)
          /\ entered' = [entered EXCEPT ![roomId] = rooms[roomId]]
          /\ UNCHANGED <<rooms, internalRooms>>
     ELSE LET authentication == prepareAuthentication(clientOptions)
          IN IF authentication.threw
             THEN /\ last' = Call("enter", roomId, NoRoom, TRUE)
                  /\ UNCHANGED <<rooms, internalRooms, entered>>
             ELSE /\ Len(internalRooms) < MaxRooms
                  /\ LET newInternalRoom ==
                           createRoom(roomId, throttleDelay, authentication.type)
                         instance == Len(internalRooms) + 1
                     IN /\ rooms' = [rooms EXCEPT ![roomId] = instance]
                        /\ internalRooms' =
                             Append(internalRooms,
                                    IF withoutConnecting
                                    THEN newInternalRoom
                                    ELSE [newInternalRoom EXCEPT !.connect = @ + 1])
                        /\ entered' = [entered EXCEPT ![roomId] = instance]
                        /\ last' = Call("enter", roomId, instance, FALSE)
  /\ UNCHANGED <<onlineListener, visibilityListener, client, clientOptions, throttleDelay, left,
                 events>>
  /\ UNCHANGED crdtVars

\* leave, without the call of room.disconnect()
leave_withoutDisconnect(roomId) ==
  /\ client = "created"
  /\ IF rooms[roomId] # NoRoom
     THEN /\ rooms' = [rooms EXCEPT ![roomId] = NoRoom]
          /\ left' = left \cup {rooms[roomId]}
          /\ entered' = [entered EXCEPT ![roomId] = NoRoom]
          /\ UNCHANGED internalRooms
     ELSE UNCHANGED <<internalRooms, rooms, left, entered>>
  /\ last' = Call("leave", roomId, NoRoom, FALSE)
  /\ UNCHANGED <<onlineListener, visibilityListener, client, clientOptions,
                 throttleDelay, events>>
  /\ UNCHANGED crdtVars

\* leave, without rooms.delete(roomId)
leave_withoutDelete(roomId) ==
  /\ client = "created"
  /\ IF rooms[roomId] # NoRoom
     THEN /\ internalRooms' =
               [internalRooms EXCEPT ![rooms[roomId]].disconnect = @ + 1]
          /\ left' = left \cup {rooms[roomId]}
          /\ entered' = [entered EXCEPT ![roomId] = NoRoom]
          /\ UNCHANGED rooms
     ELSE UNCHANGED <<internalRooms, rooms, left, entered>>
  /\ last' = Call("leave", roomId, NoRoom, FALSE)
  /\ UNCHANGED <<onlineListener, visibilityListener, client, clientOptions,
                 throttleDelay, events>>
  /\ UNCHANGED crdtVars

\* leave(roomId)
leave(roomId) ==
  /\ client = "created"
  /\ IF rooms[roomId] # NoRoom
     THEN /\ internalRooms' =
               [internalRooms EXCEPT ![rooms[roomId]].disconnect = @ + 1]
          /\ rooms' = [rooms EXCEPT ![roomId] = NoRoom]
          /\ left' = left \cup {rooms[roomId]}
          /\ entered' = [entered EXCEPT ![roomId] = NoRoom]
     ELSE UNCHANGED <<internalRooms, rooms, left, entered>>
  /\ last' = Call("leave", roomId, NoRoom, FALSE)
  /\ UNCHANGED <<onlineListener, visibilityListener, client, clientOptions, throttleDelay,
                 events>>
  /\ UNCHANGED crdtVars

\* the "online" listener, signalling every room ever created
online_everyRoom ==
  /\ client = "created"
  /\ onlineListener
  /\ events < MaxEvents
  /\ events' = events + 1
  /\ internalRooms' =
       [i \in DOMAIN internalRooms |-> [internalRooms[i] EXCEPT !.online = @ + 1]]
  /\ last' = Call("online", "", NoRoom, FALSE)
  /\ UNCHANGED <<onlineListener, visibilityListener, client, clientOptions,
                 throttleDelay, rooms, entered, left>>
  /\ UNCHANGED crdtVars

\* the "online" listener of window
online ==
  /\ client = "created"
  /\ onlineListener
  /\ events < MaxEvents
  /\ events' = events + 1
  /\ internalRooms' =
       [i \in DOMAIN internalRooms |->
          IF i \in Pooled
          THEN [internalRooms[i] EXCEPT !.online = @ + 1]
          ELSE internalRooms[i]]
  /\ last' = Call("online", "", NoRoom, FALSE)
  /\ UNCHANGED <<onlineListener, visibilityListener, client, clientOptions, throttleDelay,
                 rooms, entered, left>>
  /\ UNCHANGED crdtVars

\* the "visibilitychange" listener of document
visibilitychange ==
  /\ client = "created"
  /\ visibilityListener
  /\ events < MaxEvents
  /\ events' = events + 1
  /\ internalRooms' =
       [i \in DOMAIN internalRooms |->
          IF i \in Pooled
          THEN [internalRooms[i] EXCEPT !.visibility = @ + 1]
          ELSE internalRooms[i]]
  /\ last' = Call("visibilitychange", "", NoRoom, FALSE)
  /\ UNCHANGED <<onlineListener, visibilityListener, client, clientOptions, throttleDelay,
                 rooms, entered, left>>
  /\ UNCHANGED crdtVars

ClientNext ==
  \/ \E options \in OptionValues, window \in BOOLEAN, document \in BOOLEAN :
       createClient(options, window, document)
  \/ \E roomId \in RoomIds : getRoom(roomId)
  \/ \E roomId \in RoomIds, withoutConnecting \in BOOLEAN :
       enter(roomId, withoutConnecting)
  \/ \E roomId \in RoomIds : leave(roomId)
  \/ online
  \/ visibilitychange

----------------------------------------------------------------------------
(* The CRDT node kernel: AbstractCrdt, LiveRegister and the document's index *)

\* the registers of the document, and the live structures that can be parents
Registers == {"n1", "n2"}
Containers == {"root", "obj"}

\* node ids ("<actorId>:<counter>"; "0:0" is the root's), parent keys, values
RootId == "0:0"
Ids == {RootId, "1:1", "1:2"}
Keys == {"a", "b"}
Data == {"x", "y"}

\* undefined, for each kind of field
NoData == "undefined"
NoId == "undefined"
NoParent == "undefined"
NoKey == "undefined"
NoNode == "undefined"

CrdtCall(op, node, threw) == [op |-> op, node |-> node, threw |-> threw]

\* Doc.addItem, Doc.deleteItem on the id -> node index
addItem(index, id, node) == [index EXCEPT ![id] = node]
deleteItem(index, id) == [index EXCEPT ![id] = NoNode]

\* the arguments of _serialize that are tried (NoId, NoKey: null or undefined)
SerializeParentIds == {RootId, NoId}
SerializeParentKeys == {"a", NoKey}

\* the op types that are applied
OpTypes == {"DELETE_CRDT", "UPDATE_OBJECT", "CREATE_REGISTER"}

\* opId of an op serialized without a doc (doc?.generateOpId() is undefined)
NoOpId == -1

\* Doc.generateOpId: the next op id of the document
generateOpId(clock) == clock

\* the result of _serialize: the ops returned, or the exception
SerializeResult(node, threw, ops) ==
  [op |-> "_serialize", node |-> node, threw |-> threw, ops |-> ops]

\* the result of _apply: the type of the op, whether the parent's _detachChild
\* was called, and whether the result is other than { modified: false }
ApplyResult(node, type, delegated, modified) ==
  [op |-> "_apply", node |-> node, threw |-> FALSE, type |-> type,
   delegated |-> delegated, modified |-> modified]

CrdtInit ==
  /\ crdtData = [n \in Registers |-> NoData]
  /\ crdtId = [n \in Registers |-> NoId]
  /\ crdtDoc = [n \in Registers |-> FALSE]
  /\ crdtParent = [n \in Registers |-> NoParent]
  /\ crdtParentKey = [n \in Registers |-> NoKey]
  /\ items = [id \in Ids |-> IF id = RootId THEN "root" ELSE NoNode]
  /\ opClock = 0
  /\ crdtLast = CrdtCall("none", NoNode, FALSE)

\* new LiveRegister(data)
LiveRegister(n, data) ==
  /\ crdtData[n] = NoData
  /\ crdtData' = [crdtData EXCEPT ![n] = data]
  /\ crdtLast' = CrdtCall("LiveRegister", n, FALSE)
  /\ UNCHANGED <<crdtId, crdtDoc, crdtParent, crdtParentKey, items, opClock>>
  /\ UNCHANGED clientVars

\* _attach, without the test that the node is not attached yet
_attach_again(n, id) ==
  /\ crdtData[n] # NoData
  /\ items' = addItem(items, id, n)
  /\ crdtId' = [crdtId EXCEPT ![n] = id]
  /\ crdtDoc' = [crdtDoc EXCEPT ![n] = TRUE]
  /\ crdtLast' = CrdtCall("_attach", n, FALSE)
  /\ UNCHANGED <<crdtData, crdtParent, crdtParentKey, opClock>>
  /\ UNCHANGED clientVars

\* AbstractCrdt._attach(id, doc)
_attach(n, id) ==
  /\ crdtData[n] # NoData
  /\ IF crdtId[n] # NoId \/ crdtDoc[n]
     THEN /\ crdtLast' = CrdtCall("_attach", n, TRUE)
          /\ UNCHANGED <<crdtId, crdtDoc, items>>
     ELSE /\ items' = addItem(items, id, n)
          /\ crdtId' = [crdtId EXCEPT ![n] = id]
          /\ crdtDoc' = [crdtDoc EXCEPT ![n] = TRUE]
          /\ crdtLast' = CrdtCall("_attach", n, FALSE)
  /\ UNCHANGED <<crdtData, crdtParent, crdtParentKey, opClock>>
  /\ UNCHANGED clientVars

\* LiveRegister._deserialize([id, item], parentToChildren, doc):
\* constructs the register and attaches it
_deserialize(n, id, data) ==
  /\ crdtData[n] = NoData
  /\ crdtData' = [crdtData EXCEPT ![n] = data]
  /\ items' = addItem(items, id, n)
  /\ crdtId' = [crdtId EXCEPT ![n] = id]
  /\ crdtDoc' = [crdtDoc EXCEPT ![n] = TRUE]
  /\ crdtLast' = CrdtCall("_deserialize", n, FALSE)
  /\ UNCHANGED <<crdtParent, crdtParentKey, opClock>>
  /\ UNCHANGED clientVars

\* _setParentLink, without the test of the parent the node already has
_setParentLink_reparents(n, parent, key) ==
  /\ crdtData[n] # NoData
  /\ crdtParentKey' = [crdtParentKey EXCEPT ![n] = key]
  /\ crdtParent' = [crdtParent EXCEPT ![n] = parent]
  /\ crdtLast' = CrdtCall("_setParentLink", n, FALSE)
  /\ UNCHANGED <<crdtData, crdtId, crdtDoc, items, opClock>>
  /\ UNCHANGED clientVars

\* AbstractCrdt._setParentLink(parent, key)
_setParentLink(n, parent, key) ==
  /\ crdtData[n] # NoData
  /\ IF crdtParent[n] # NoParent /\ crdtParent[n] # parent
     THEN /\ crdtLast' = CrdtCall("_setParentLink", n, TRUE)
          /\ UNCHANGED <<crdtParent, crdtParentKey>>
     ELSE /\ crdtParentKey' = [crdtParentKey EXCEPT ![n] = key]
          /\ crdtParent' = [crdtParent EXCEPT ![n] = parent]
          /\ crdtLast' = CrdtCall("_setParentLink", n, FALSE)
  /\ UNCHANGED <<crdtData, crdtId, crdtDoc, items, opClock>>
  /\ UNCHANGED clientVars

\* _detach, without the reset of __parent
_detach_keepsParent(n) ==
  /\ crdtData[n] # NoData
  /\ items' = IF crdtDoc[n] /\ crdtId[n] # NoId
              THEN deleteItem(items, crdtId[n])
              ELSE items
  /\ crdtDoc' = [crdtDoc EXCEPT ![n] = FALSE]
  /\ crdtLast' = CrdtCall("_detach", n, FALSE)
  /\ UNCHANGED <<crdtData, crdtId, crdtParent, crdtParentKey, opClock>>
  /\ UNCHANGED clientVars

\* AbstractCrdt._detach()
_detach(n) ==
  /\ crdtData[n] # NoData
  /\ items' = IF crdtDoc[n] /\ crdtId[n] # NoId
              THEN deleteItem(items, crdtId[n])
              ELSE items
  /\ crdtParent' = [crdtParent EXCEPT ![n] = NoParent]
  /\ crdtDoc' = [crdtDoc EXCEPT ![n] = FALSE]
  /\ crdtLast' = CrdtCall("_detach", n, FALSE)
  /\ UNCHANGED <<crdtData, crdtId, crdtParentKey, opClock>>
  /\ UNCHANGED clientVars

\* _serialize, without the test of this._id
_serialize_withoutIdTest(n, parentId, parentKey, doc) ==
  /\ crdtData[n] # NoData
  /\ IF parentId = NoId \/ parentKey = NoKey
     THEN /\ crdtLast' = SerializeResult(n, TRUE, <<>>)
          /\ UNCHANGED opClock
     ELSE /\ doc => opClock < MaxOps
          /\ opClock' = IF doc THEN opClock + 1 ELSE opClock
          /\ crdtLast' =
               SerializeResult(n, FALSE,
                 <<[type |-> "CREATE_REGISTER",
                    opId |-> IF doc THEN generateOpId(opClock) ELSE NoOpId,
                    id |-> crdtId[n],
                    parentId |-> parentId,
                    parentKey |-> parentKey,
                    data |-> crdtData[n]]>>)
  /\ UNCHANGED <<crdtData, crdtId, crdtDoc, crdtParent, crdtParentKey, items>>
  /\ UNCHANGED clientVars

\* _serialize, with the node's own parent key in place of the argument
_serialize_ownParentKey(n, parentId, parentKey, doc) ==
  /\ crdtData[n] # NoData
  /\ IF crdtId[n] = NoId \/ parentId = NoId \/ parentKey = NoKey
     THEN /\ crdtLast' = SerializeResult(n, TRUE, <<>>)
          /\ UNCHANGED opClock
     ELSE /\ doc => opClock < MaxOps
          /\ opClock' = IF doc THEN opClock + 1 ELSE opClock
          /\ crdtLast' =
               SerializeResult(n, FALSE,
                 <<[type |-> "CREATE_REGISTER",
                    opId |-> IF doc THEN generateOpId(opClock) ELSE NoOpId,
                    id |-> crdtId[n],
                    parentId |-> parentId,
                    parentKey |-> crdtParentKey[n],
                    data |-> crdtData[n]]>>)
  /\ UNCHANGED <<crdtData, crdtId, crdtDoc, crdtParent, crdtParentKey, items>>
  /\ UNCHANGED clientVars

\* LiveRegister._serialize(parentId, parentKey, doc?)
\* (parentId, parentKey: NoId, NoKey for null or undefined; doc: whether given)
_serialize(n, parentId, parentKey, doc) ==
  /\ crdtData[n] # NoData
  /\ IF crdtId[n] = NoId \/ parentId = NoId \/ parentKey = NoKey
     THEN /\ crdtLast' = SerializeResult(n, TRUE, <<>>)
          /\ UNCHANGED opClock
     ELSE /\ doc => opClock < MaxOps
          /\ opClock' = IF doc THEN opClock + 1 ELSE opClock
          /\ crdtLast' =
               SerializeResult(n, FALSE,
                 <<[type |-> "CREATE_REGISTER",
                    opId |-> IF doc THEN generateOpId(opClock) ELSE NoOpId,
                    id |-> crdtId[n],
                    parentId |-> parentId,
                    parentKey |-> parentKey,
                    data |-> crdtData[n]]>>)
  /\ UNCHANGED <<crdtData, crdtId, crdtDoc, crdtParent, crdtParentKey, items>>
  /\ UNCHANGED clientVars

\* parent._detachChild(child) of a live structure that has children: the
\* parent drops the child and calls child._detach()
_detachChild(parent, n) ==
  /\ items' = IF crdtDoc[n] /\ crdtId[n] # NoId
              THEN deleteItem(items, crdtId[n])
              ELSE items
  /\ crdtParent' = [crdtParent EXCEPT ![n] = NoParent]
  /\ crdtDoc' = [crdtDoc EXCEPT ![n] = FALSE]

\* _apply, with UPDATE_OBJECT writing the register's value
_apply_updatesData(n, type, isLocal) ==
  /\ crdtData[n] # NoData
  /\ IF type = "DELETE_CRDT" /\ crdtParent[n] # NoParent /\ crdtParentKey[n] # NoKey
     THEN /\ _detachChild(crdtParent[n], n)
          /\ crdtLast' = ApplyResult(n, type, TRUE, TRUE)
          /\ UNCHANGED crdtData
     ELSE /\ crdtLast' = ApplyResult(n, type, FALSE, type = "UPDATE_OBJECT")
          /\ crdtData' =
               IF type = "UPDATE_OBJECT"
               THEN [crdtData EXCEPT ![n] = CHOOSE d \in Data : d # crdtData[n]]
               ELSE crdtData
          /\ UNCHANGED <<items, crdtParent, crdtDoc>>
  /\ UNCHANGED <<crdtId, crdtParentKey, opClock>>
  /\ UNCHANGED clientVars

\* _apply, with DELETE_CRDT testing the parent key alone
_apply_testsKeyOnly(n, type, isLocal) ==
  /\ crdtData[n] # NoData
  /\ IF type = "DELETE_CRDT" /\ crdtParentKey[n] # NoKey
     THEN /\ _detachChild(crdtParent[n], n)
          /\ crdtLast' = ApplyResult(n, type, TRUE, TRUE)
     ELSE /\ crdtLast' = ApplyResult(n, type, FALSE, FALSE)
          /\ UNCHANGED <<items, crdtParent, crdtDoc>>
  /\ UNCHANGED <<crdtData, crdtId, crdtParentKey, opClock>>
  /\ UNCHANGED clientVars

\* LiveRegister._apply(op, isLocal), that is AbstractCrdt._apply
_apply(n, type, isLocal) ==
  /\ crdtData[n] # NoData
  /\ IF type = "DELETE_CRDT" /\ crdtParent[n] # NoParent /\ crdtParentKey[n] # NoKey
     THEN /\ _detachChild(crdtParent[n], n)
          /\ crdtLast' = ApplyResult(n, type, TRUE, TRUE)
     ELSE /\ crdtLast' = ApplyResult(n, type, FALSE, FALSE)
          /\ UNCHANGED <<items, crdtParent, crdtDoc>>
  /\ UNCHANGED <<crdtData, crdtId, crdtParentKey, opClock>>
  /\ UNCHANGED clientVars

CrdtNext ==
  \/ \E n \in Registers, data \in Data : LiveRegister(n, data)
  \/ \E n \in Registers, id \in Ids, data \in Data : _deserialize(n, id, data)
  \/ \E n \in Registers, id \in Ids : _attach(n, id)
  \/ \E n \in Registers, parent \in Containers, key \in Keys :
       _setParentLink(n, parent, key)
  \/ \E n \in Registers : _detach(n)
  \/ \E n \in Registers, parentId \in SerializeParentIds,
        parentKey \in SerializeParentKeys, doc \in BOOLEAN :
       _serialize(n, parentId, parentKey, doc)
  \/ \E n \in Registers, type \in OpTypes, isLocal \in BOOLEAN :
       _apply(n, type, isLocal)

----------------------------------------------------------------------------
(* Specifications *)

Init == ClientInit /\ CrdtInit

\* one client: its construction, its pool and the environment events
Next == ClientNext

Spec == Init /\ [][Next]_vars

\* one document: the calls on its nodes
CrdtSpec == Init /\ [][CrdtNext]_vars

----------------------------------------------------------------------------
(* Properties of the room pool *)

\* the instances created for room id r that leave() has not removed
LiveRoomsOf(r) ==
  {i \in DOMAIN internalRooms : internalRooms[i].room = r /\ i \notin left}

\* some instance of room id r has been left
HasLeft(r) == \E i \in left : internalRooms[i].room = r

\* C1: enter(roomId) on a room id that is in the pool returns the pooled
\* instance, creates no room and calls nothing on any room; so at most one
\* instance per room id is ever alive (created and not left), the pooled one.
EnterExistingReusesRoom ==
  /\ [](\A r \in RoomIds :
          /\ Cardinality(LiveRoomsOf(r)) <= 1
          /\ LiveRoomsOf(r) = {rooms[r]} \ {NoRoom})
  /\ [][\A r \in RoomIds :
          (last'.op = "enter" /\ last'.arg = r /\ rooms[r] # NoRoom)
            => /\ last'.ret = rooms[r]
               /\ ~last'.threw
               /\ rooms' = rooms
               /\ internalRooms' = internalRooms]_vars

\* C1 witness: enter has returned a room that had already received an
\* "online" signal, that is, a room that was in the pool before the call
EnterExistingWitness ==
  /\ last.op = "enter"
  /\ last.ret # NoRoom
  /\ internalRooms[last.ret].online > 0

\* C2 (as claimed): enter(roomId) on a room id that is not in the pool creates
\* one room, registers it under roomId and returns it, having called connect()
\* once, or not at all with withoutConnecting; the client calls connect() on
\* no room afterwards.
EnterNewCreatesAndConnects ==
  [][/\ \A r \in RoomIds, w \in BOOLEAN :
          (enter(r, w) /\ rooms[r] = NoRoom)
            => /\ ~last'.threw
               /\ Len(internalRooms') = Len(internalRooms) + 1
               /\ rooms'[r] = Len(internalRooms')
               /\ last'.ret = rooms'[r]
               /\ internalRooms'[rooms'[r]].connect = (IF w THEN 0 ELSE 1)
     /\ \A i \in DOMAIN internalRooms :
          internalRooms'[i].connect = internalRooms[i].connect]_vars

\* C3: leave(roomId) on a pooled room id calls disconnect() once on that room
\* and removes the entry (a getRoom that follows returns null); on a room id
\* that is not in the pool it calls nothing and leaves the pool as it is.
LeaveDisconnectsAndRemoves ==
  /\ [][\A r \in RoomIds :
          (last'.op = "leave" /\ last'.arg = r)
            => IF rooms[r] # NoRoom
               THEN /\ rooms' = [rooms EXCEPT ![r] = NoRoom]
                    /\ internalRooms' =
                         [internalRooms EXCEPT ![rooms[r]].disconnect = @ + 1]
               ELSE /\ rooms' = rooms
                    /\ internalRooms' = internalRooms]_vars
  /\ [][(last.op = "leave" /\ last'.op = "getRoom" /\ last'.arg = last.arg)
          => last'.ret = NoRoom]_vars

\* C3 witness: leave has just removed a room and disconnected it
LeaveWitness ==
  /\ last.op = "leave"
  /\ rooms[last.arg] = NoRoom
  /\ \E i \in left : internalRooms[i].room = last.arg
                       /\ internalRooms[i].disconnect = 1

\* C4: getRoom(roomId) returns what the last enter(roomId) returned if the
\* room has not been left since, null otherwise, and changes neither the pool
\* nor any room.
GetRoomIsPureLookup ==
  [][\A r \in RoomIds :
       (last'.op = "getRoom" /\ last'.arg = r)
         => /\ last'.ret = entered[r]
            /\ ~last'.threw
            /\ rooms' = rooms
            /\ internalRooms' = internalRooms]_vars

\* C4 witness: getRoom has returned the room of an id that was left and
\* entered again
GetRoomWitness ==
  /\ last.op = "getRoom"
  /\ last.ret # NoRoom
  /\ HasLeft(last.arg)

\* C5: a room that was left is never in the pool again, is never returned by
\* enter or getRoom, and never has connect() called on it; enter(r) after
\* leave(r) has removed a room returns a newly created instance.
LeftRoomIsNeverReused ==
  /\ [](\A i \in left :
          /\ i \notin Pooled
          /\ (last.op \in {"enter", "getRoom"} => last.ret # i))
  /\ [][\A i \in left : internalRooms'[i].connect = internalRooms[i].connect]_vars
  /\ [][\A r \in RoomIds :
          (/\ last.op = "leave" /\ last.arg = r /\ HasLeft(r)
           /\ last'.op = "enter" /\ last'.arg = r)
            => /\ ~last'.threw
               /\ last'.ret \notin DOMAIN internalRooms
               /\ last'.ret \in DOMAIN internalRooms'
               /\ rooms'[r] = last'.ret]_vars

\* C5 witness: enter has returned a room for an id whose earlier room was left
EnterAfterLeaveWitness ==
  /\ last.op = "enter"
  /\ last.ret # NoRoom
  /\ HasLeft(last.arg)

----------------------------------------------------------------------------
(* Properties of the client options *)

\* a number in the closed range [MinThrottle, MaxThrottle]
ThrottleInRange(t) ==
  t.type = "number" /\ ~t.nan /\ MinThrottle <= t.val /\ t.val <= MaxThrottle

\* C6 (as claimed): createClient returns exactly when throttle is undefined or
\* a number in [80, 1000], every room then gets 100 or the option's value as
\* its throttle delay; with any other value it throws and no room exists.
ThrottleValidatedAtConstruction ==
  client # "none" =>
    IF clientOptions.throttle.type = "undefined"
       \/ ThrottleInRange(clientOptions.throttle)
    THEN /\ client = "created"
         /\ \A i \in DOMAIN internalRooms :
              internalRooms[i].throttleDelay =
                (IF clientOptions.throttle.type = "undefined"
                 THEN Num(DefaultThrottle)
                 ELSE clientOptions.throttle)
    ELSE /\ client = "threw"
         /\ internalRooms = <<>>

\* C7 (as claimed): with neither publicApiKey nor authEndpoint, createClient
\* throws: no client exists for such options.
NoAuthenticationFailsConstruction ==
  (/\ client # "none"
   /\ clientOptions.publicApiKey.type = "undefined"
   /\ clientOptions.authEndpoint.type = "undefined")
    => client = "threw"

\* C8 (as claimed): with both publicApiKey and authEndpoint the options are
\* rejected: no room is ever created, and enter does not return one.
BothAuthenticationsRejected ==
  (/\ client # "none"
   /\ clientOptions.publicApiKey.type # "undefined"
   /\ clientOptions.authEndpoint.type # "undefined")
    => /\ internalRooms = <<>>
       /\ (last.op = "enter" => last.threw)

----------------------------------------------------------------------------
(* Properties of the environment wiring *)

\* C9: an "online" event calls onNavigatorOnline once on every pooled room and
\* a "visibilitychange" event calls onVisibilityChange once on every pooled
\* room; no other room and no other step signals a room, and a room starts
\* with no signal received.
EnvironmentSignalsReachPooledRooms ==
  [][/\ \A i \in DOMAIN internalRooms :
          /\ internalRooms'[i].online =
               internalRooms[i].online
                 + (IF last'.op = "online" /\ i \in Pooled THEN 1 ELSE 0)
          /\ internalRooms'[i].visibility =
               internalRooms[i].visibility
                 + (IF last'.op = "visibilitychange" /\ i \in Pooled THEN 1 ELSE 0)
     /\ \A i \in DOMAIN internalRooms' \ DOMAIN internalRooms :
          internalRooms'[i].online = 0 /\ internalRooms'[i].visibility = 0]_vars

\* C9 witness: an "online" event has signalled the pooled room and not the
\* room that was left
OnlineWitness ==
  /\ last.op = "online"
  /\ \E i \in left : internalRooms[i].online = 0
  /\ \E j \in Pooled : internalRooms[j].online = 1

----------------------------------------------------------------------------
(* Properties of the node kernel *)

\* C10 (as claimed): every node is detached (no id, no parent) or attached
\* (id, parent, registered in the index under its id), and a node on which
\* _detach has completed has neither id nor parent.
NodeIsDetachedOrAttached ==
  /\ \A n \in Registers :
       crdtData[n] # NoData =>
         \/ (crdtId[n] = NoId /\ crdtParent[n] = NoParent)
         \/ (crdtId[n] # NoId /\ crdtParent[n] # NoParent /\ items[crdtId[n]] = n)
  /\ crdtLast.op = "_detach" =>
       /\ crdtId[crdtLast.node] = NoId
       /\ crdtParent[crdtLast.node] = NoParent

\* C10 (amended): a node that belongs to the document has an id; when _detach
\* completes the node has no parent and no document, while its id and its
\* parent key are kept.
NodeInDocumentHasId ==
  /\ [](\A n \in Registers : crdtDoc[n] => crdtId[n] # NoId)
  /\ [][\A n \in Registers :
          (crdtLast'.op = "_detach" /\ crdtLast'.node = n)
            => /\ crdtParent'[n] = NoParent
               /\ ~crdtDoc'[n]
               /\ crdtId'[n] = crdtId[n]
               /\ crdtParentKey'[n] = crdtParentKey[n]]_vars

\* C10 witness: _detach has completed on a node that had an id and a parent
\* link: the id and the parent key are still there
DetachWitness ==
  /\ crdtLast.op = "_detach"
  /\ crdtId[crdtLast.node] # NoId
  /\ crdtParentKey[crdtLast.node] # NoKey
  /\ crdtParent[crdtLast.node] = NoParent
  /\ ~crdtDoc[crdtLast.node]

\* the node is attached to the document
Attached(n) == crdtDoc[n]

\* C11 (as claimed): the index maps an id to a node exactly when that node is
\* attached with that id, and no two attached nodes (the root included) have
\* the same id.
IndexCoversAttachedSet ==
  /\ \A n \in Registers, id \in Ids :
       (items[id] = n) <=> (Attached(n) /\ crdtId[n] = id)
  /\ \A n \in Registers : Attached(n) => crdtId[n] # RootId
  /\ \A m, n \in Registers :
       (m # n /\ Attached(m) /\ Attached(n)) => crdtId[m] # crdtId[n]

\* C12 (as claimed): every attached node has a parent; a node that has a
\* parent keeps it, and its parent key, when _setParentLink names another
\* parent (the call throws); with the same parent only the key changes; the
\* parent changes only by _detach.
AttachedNodeHasOneParent ==
  /\ [](\A n \in Registers : Attached(n) => crdtParent[n] # NoParent)
  /\ [][\A n \in Registers, p \in Containers, k \in Keys :
          (_setParentLink(n, p, k) /\ crdtParent[n] # NoParent)
            => IF p # crdtParent[n]
               THEN /\ crdtLast'.threw
                    /\ crdtParent' = crdtParent
                    /\ crdtParentKey' = crdtParentKey
               ELSE /\ ~crdtLast'.threw
                    /\ crdtParent' = crdtParent
                    /\ crdtParentKey' = [crdtParentKey EXCEPT ![n] = k]]_vars
  /\ [][\A n \in Registers :
          (crdtParent[n] # NoParent /\ crdtParent'[n] # crdtParent[n])
            => /\ crdtLast'.op \in {"_detach", "_apply"}
               /\ crdtLast'.node = n
               /\ crdtParent'[n] = NoParent]_vars

\* C12 (amended): a node has at most one parent: the same as claimed, without
\* the statement that an attached node has a parent.
NodeKeepsItsParent ==
  /\ [][\A n \in Registers :
          (crdtLast'.op = "_setParentLink" /\ crdtLast'.node = n
           /\ crdtParent[n] # NoParent)
            => \/ /\ crdtLast'.threw
                  /\ crdtParent' = crdtParent
                  /\ crdtParentKey' = crdtParentKey
               \/ /\ ~crdtLast'.threw
                  /\ crdtParent' = crdtParent
                  /\ \E key \in Keys :
                       crdtParentKey' = [crdtParentKey EXCEPT ![n] = key]]_vars
  /\ [][\A n \in Registers, p \in Containers, k \in Keys :
          (_setParentLink(n, p, k) /\ crdtParent[n] # NoParent)
            => /\ crdtLast'.threw = (p # crdtParent[n])
               /\ (~crdtLast'.threw => crdtParentKey'[n] = k)]_vars
  /\ [][\A n \in Registers :
          (crdtParent[n] # NoParent /\ crdtParent'[n] # crdtParent[n])
            => /\ crdtLast'.op \in {"_detach", "_apply"}
               /\ crdtLast'.node = n
               /\ crdtParent'[n] = NoParent]_vars

\* C12 witness: _setParentLink has thrown on a node that has a parent
SetParentLinkThrowsWitness ==
  /\ crdtLast.op = "_setParentLink"
  /\ crdtLast.threw
  /\ crdtParent[crdtLast.node] # NoParent

\* the fields of the nodes and the index
nodeState == <<crdtData, crdtId, crdtDoc, crdtParent, crdtParentKey, items>>

\* C13 (as claimed): _serialize returns an op only while the register is
\* attached to a document; on a detached register it throws and returns no op.
SerializeOnlyWhenAttached ==
  crdtLast.op = "_serialize" =>
    /\ ~crdtLast.threw => Attached(crdtLast.node)
    /\ ~Attached(crdtLast.node) => (crdtLast.threw /\ crdtLast.ops = <<>>)

\* C13 (amended): _serialize returns one CREATE_REGISTER op only while the
\* register has an id, and throws, returning no op, on a register without id;
\* a register keeps its id when it is detached, and is serialized all the same.
SerializeOnlyWithId ==
  crdtLast.op = "_serialize" =>
    /\ crdtId[crdtLast.node] = NoId => crdtLast.threw
    /\ crdtLast.threw => crdtLast.ops = <<>>
    /\ ~crdtLast.threw =>
         /\ Len(crdtLast.ops) = 1
         /\ crdtLast.ops[1].type = "CREATE_REGISTER"
         /\ crdtLast.ops[1].id = crdtId[crdtLast.node]
         /\ crdtLast.ops[1].id # NoId

\* C13 witness: _serialize has returned an op for a register that was
\* attached and then detached
SerializeDetachedWitness ==
  /\ crdtLast.op = "_serialize"
  /\ ~crdtLast.threw
  /\ ~Attached(crdtLast.node)

\* C14 (as claimed): every op returned by _serialize carries an opId, the
\* target id, the parentId, the parentKey and the data.
SerializedOpCarriesOpId ==
  (crdtLast.op = "_serialize" /\ ~crdtLast.threw) =>
    /\ crdtLast.ops[1].opId # NoOpId
    /\ crdtLast.ops[1].id # NoId
    /\ crdtLast.ops[1].parentId # NoId
    /\ crdtLast.ops[1].parentKey # NoKey
    /\ crdtLast.ops[1].data # NoData

\* C14 (amended): every op returned by _serialize carries the register's id,
\* the parentId and the parentKey it was called with and the register's data;
\* it carries an opId exactly when _serialize is called with a doc.
SerializedOpCarriesOpIdWithDoc ==
  [][\A n \in Registers, parentId \in SerializeParentIds,
        parentKey \in SerializeParentKeys, doc \in BOOLEAN :
       (_serialize(n, parentId, parentKey, doc) /\ ~crdtLast'.threw)
         => /\ (crdtLast'.ops[1].opId # NoOpId) = doc
            /\ crdtLast'.ops[1].id = crdtId[n] /\ crdtId[n] # NoId
            /\ crdtLast'.ops[1].parentId = parentId /\ parentId # NoId
            /\ crdtLast'.ops[1].parentKey = parentKey /\ parentKey # NoKey
            /\ crdtLast'.ops[1].data = crdtData[n]]_vars

\* C14 witness: _serialize, called without a doc, has returned an op
SerializeWithoutDocWitness ==
  /\ crdtLast.op = "_serialize"
  /\ ~crdtLast.threw
  /\ crdtLast.ops[1].opId = NoOpId

\* C15: the data of a register never changes once it is constructed, and
\* _apply of an op other than DELETE_CRDT returns { modified: false } and
\* changes no node and no index entry.
RegisterDataIsImmutable ==
  [][\A n \in Registers :
       /\ crdtData[n] # NoData => crdtData'[n] = crdtData[n]
       /\ (crdtLast'.op = "_apply" /\ crdtLast'.node = n
           /\ crdtLast'.type # "DELETE_CRDT")
            => (~crdtLast'.modified /\ nodeState' = nodeState)]_vars

\* C15 witness: UPDATE_OBJECT has been applied to an attached register that
\* has a parent
ApplyUpdateWitness ==
  /\ crdtLast.op = "_apply"
  /\ crdtLast.type = "UPDATE_OBJECT"
  /\ Attached(crdtLast.node)
  /\ crdtParent[crdtLast.node] # NoParent

\* C16: _attach on a node that has an id or a document throws and changes
\* neither the index nor the id nor the document of any node.
AttachTwiceThrows ==
  [][\A n \in Registers :
       (crdtLast'.op = "_attach" /\ crdtLast'.node = n
        /\ (crdtId[n] # NoId \/ crdtDoc[n]))
         => (crdtLast'.threw /\ nodeState' = nodeState)]_vars

\* C16 witness: _attach has thrown on a node that has an id and, being
\* detached, no document
AttachTwiceWitness ==
  /\ crdtLast.op = "_attach"
  /\ crdtLast.threw
  /\ crdtId[crdtLast.node] # NoId
  /\ ~crdtDoc[crdtLast.node]

\* C17: DELETE_CRDT calls the parent's _detachChild exactly when the node has
\* a parent and a parent key; on a node without parent it returns
\* { modified: false } and changes no node and no index entry.
DeleteDelegatesToParent ==
  [][\A n \in Registers :
       (crdtLast'.op = "_apply" /\ crdtLast'.node = n
        /\ crdtLast'.type = "DELETE_CRDT")
         => /\ crdtLast'.delegated =
                 (crdtParent[n] # NoParent /\ crdtParentKey[n] # NoKey)
            /\ crdtParent[n] = NoParent
                 => (~crdtLast'.modified /\ nodeState' = nodeState)]_vars

\* C17 witness: DELETE_CRDT has been applied to a node that was detached
\* before, and was not delegated
DeleteDetachedWitness ==
  /\ crdtLast.op = "_apply"
  /\ crdtLast.type = "DELETE_CRDT"
  /\ ~crdtLast.delegated
  /\ crdtParentKey[crdtLast.node] # NoKey
  /\ crdtId[crdtLast.node] # NoId

----------------------------------------------------------------------------
(* Properties of the pool over the life of the room instances *)

\* C18: every room instance the client has created is either in the pool,
\* and disconnect() was never called on it, or out of the pool, and
\* disconnect() was called on it exactly once; no instance goes out of the
\* pool without a call of disconnect().
PooledOrDisconnectedOnce ==
  /\ [](\A i \in DOMAIN internalRooms :
          \/ (i \in Pooled /\ internalRooms[i].disconnect = 0)
          \/ (i \notin Pooled /\ internalRooms[i].disconnect = 1))
  /\ [][\A i \in DOMAIN internalRooms :
          (i \in Pooled /\ i \notin Pooled')
            => internalRooms'[i].disconnect = internalRooms[i].disconnect + 1]_vars

\* C18 witness: of two instances of one room id, the first was left and the
\* second is in the pool
LeftAndPooledWitness ==
  \E i, j \in DOMAIN internalRooms :
    /\ i # j
    /\ internalRooms[i].room = internalRooms[j].room
    /\ i \notin Pooled
    /\ j \in Pooled

\* C19: enter(roomId) that throws for want of a usable authentication leaves
\* the pool as it was: no room is registered, created or connected, and a
\* getRoom(roomId) that follows returns null.
FailedEnterLeavesPoolUnchanged ==
  /\ [][(last'.op = "enter" /\ last'.threw)
          => (rooms' = rooms /\ internalRooms' = internalRooms)]_vars
  /\ []((last.op = "enter" /\ last.threw) => rooms[last.arg] = NoRoom)
  /\ [][(last.op = "enter" /\ last.threw /\ last'.op = "getRoom"
         /\ last'.arg = last.arg)
          => last'.ret = NoRoom]_vars

\* C19 witness: enter(roomId) has thrown on a client whose options carry no
\* usable authentication, and no room instance exists
FailedEnterWitness ==
  /\ last.op = "enter"
  /\ last.threw
  /\ prepareAuthentication(clientOptions).threw
  /\ internalRooms = <<>>

====
